---- MODULE Spec2Model ----
(***************************************************************************)
(* Model of src/app.py: the work-hours extraction core                     *)
(* (extract_work_hours_smart, the table extractor and its name checks) and *)
(* the Streamlit session shell around it (process_files_multi,             *)
(* display_results_multi, the clear button).                               *)
(*                                                                         *)
(* TEXT.  A text is a sequence of tokens.  A token is a maximal run of     *)
(* decimal digits, one of the characters the patterns name, a label word   *)
(* that a pattern spells out, or a run of other characters.  TLC strings   *)
(* are ASCII, so the Japanese words are written in romaji:                 *)
(*   kinmu_jikan = 勤務時間   sou_kinmu_jikan = 総勤務時間                 *)
(*   goukei = 合計   sou_jikan = 総時間   jitsudou = 実働   jissai = 実際  *)
(*   shimei = 氏名   namae = 名前   shain_mei = 社員名   haken_sha = 派遣者 *)
(*   sagyou_sha = 作業者   ji = 時   kan = 間   fun = 分   fcolon = ：      *)
(* Matching is case-insensitive (re.IGNORECASE), so Latin words are kept   *)
(* in lower case.                                                          *)
(*                                                                         *)
(* NUMBERS.  Hours are exact: an integer count of 1/Unit hour before       *)
(* rounding, and an integer count of hundredths once round(hours, 2) has   *)
(* been applied.                                                           *)
(***************************************************************************)
EXTENDS Integers, Sequences, FiniteSets, TLC

VARIABLES
    stage,               \* position of the driver of a function: "input", "done";
                         \* "main" in the session
    text,                \* the argument of extract_work_hours_smart
    all_matches,         \* its local all_matches: tier -> list of candidates
    selected_values,     \* its local selected_values
    final_results,       \* its return value (hundredths of an hour)
    raw_name,            \* match[0] of a table row
    name_candidate,      \* clean_employee_name(match[0].strip())
    valid,               \* is_valid_employee_name(name_candidate)
    raw_records,         \* the employees_data given to remove_duplicate_employees
    unique_records,      \* the unique_employees it returns
    PDF_SUPPORT,         \* whether PyMuPDF could be imported (lines 10-14)
    uploaded_files,      \* the files held by st.file_uploader
    processed_files,     \* st.session_state.processed_files
    debug_info,          \* st.session_state.debug_info: text[:50] -> trace
    debug_info_present,  \* 'debug_info' in st.session_state
    messages,            \* st.error / st.success output of the last batch
    table,               \* the rows display_results_multi last showed
    stats,               \* the metrics the sidebar last showed
    clicked              \* the button of the last run of main

hours_vars == <<stage, text, all_matches, selected_values, final_results>>
name_vars == <<raw_name, name_candidate, valid>>
table_vars == <<raw_records, unique_records>>
session_vars == <<PDF_SUPPORT, uploaded_files, processed_files, messages, table, stats, clicked>>
trace_vars == <<debug_info, debug_info_present>>
vars == <<hours_vars, name_vars, table_vars, session_vars, trace_vars>>

----------------------------------------------------------------------------
(* Bounds of the model *)

\* digits after the decimal point that the exact arithmetic carries
MaxFracDigits == 3
\* fields in a text drawn from the wide field set
MaxFields == 2
\* fields in a text drawn from the bare-number field set
MaxBareFields == 4

----------------------------------------------------------------------------
(* Tokens *)

Tok(k, s, v, n) == [k |-> k, s |-> s, v |-> v, n |-> n]
Ch(s) == Tok("ch", s, 0, 1)            \* one character of a class
Digits(v, n) == Tok("digits", "", v, n) \* n digits spelling the number v
Label(s, n) == Tok("label", s, 0, n)    \* a label word of n characters
Word(s, n) == Tok("word", s, 0, n)      \* n other characters

RECURSIVE Pow10(_)
Pow10(n) == IF n = 0 THEN 1 ELSE 10 * Pow10(n - 1)

\* exact hours are counted in 1/Unit hour: thousandths and sixtieths both fit
Unit == 3 * Pow10(MaxFracDigits)

Min(a, b) == IF a <= b THEN a ELSE b

IsDigits(t, i) == i \in 1..Len(t) /\ t[i].k = "digits"
IsCh(t, i, S) == i \in 1..Len(t) /\ t[i].k = "ch" /\ t[i].s \in S

\* first index >= i whose token is not a character of class S
SkipCh(t, i, S) ==
    CHOOSE j \in i..(Len(t) + 1) :
        /\ \A k \in i..(j - 1) : IsCh(t, k, S)
        /\ ~IsCh(t, j, S)

\* character classes of the patterns
SepJP == {"colon", "ws", "fcolon"}    \* [:\s：]
SepEN == {"colon", "ws"}              \* [:\s]
UnitCh == {"ji", "kan", "h"}          \* [時間hH] under IGNORECASE
\* a token whose first character is in [時間hH]
StartsWithUnit(t, i) ==
    \/ IsCh(t, i, UnitCh)
    \/ i \in 1..Len(t) /\ t[i].k = "word" /\ t[i].s \in {"hour", "hours"}
\* a token that begins with the literal "hour"
StartsWithHour(t, i) ==
    i \in 1..Len(t) /\ t[i].k = "word" /\ t[i].s \in {"hour", "hours"}

----------------------------------------------------------------------------
(* priority_patterns: the ordered rule table of extract_work_hours_smart.  *)
(* The tiers 最重要, 高優先, 中優先, 低優先, 最低優先 are written Critical,    *)
(* High, Medium, Low, Lowest.  A labelled rule is its literal followed by  *)
(* separators, a number and unit characters; `labels' is the                *)
(* set of label words the literal ends (総勤務時間 ends in 勤務時間, so the  *)
(* first rule matches inside it too).                                      *)

Rule(priority, kind, labels, seps, description) ==
    [priority |-> priority, kind |-> kind, labels |-> labels, seps |-> seps,
     description |-> description]

priority_patterns == <<
    Rule("Critical", "label", {"kinmu_jikan", "sou_kinmu_jikan"}, SepJP, "kinmu_jikan"),
    Rule("Critical", "label", {"sou_kinmu_jikan"}, SepJP, "sou_kinmu_jikan"),
    Rule("Critical", "label", {"total_hours"}, SepEN, "Total Hours"),
    Rule("Critical", "label", {"work_hours"}, SepEN, "Work Hours"),
    Rule("Critical", "label", {"working_hours"}, SepEN, "Working Hours"),
    Rule("High", "label", {"goukei"}, SepJP, "goukei"),
    Rule("High", "label", {"sou_jikan"}, SepJP, "sou_jikan"),
    Rule("High", "label", {"total"}, SepEN, "TOTAL"),
    Rule("High", "label", {"total"}, SepEN, "Total"),
    Rule("Medium", "label", {"jitsudou"}, SepJP, "jitsudou_jikan"),
    Rule("Medium", "label", {"jissai"}, SepJP, "jissai_jikan"),
    Rule("Medium", "label", {"net_hours"}, SepEN, "Net Hours"),
    Rule("Medium", "label", {"actual"}, SepEN, "Actual"),
    Rule("Low", "unit", {}, {}, "NN_jikan"),
    Rule("Low", "hours", {}, {}, "NN_hours"),
    Rule("Lowest", "hm", {}, {}, "jikan_fun")
>>

Priorities == <<"Critical", "High", "Medium", "Low", "Lowest">>
PrioritySet == {Priorities[i] : i \in 1..Len(Priorities)}

----------------------------------------------------------------------------
(* re.findall(pattern, text, re.IGNORECASE) for the three shapes of rule.  *)
(* A match of one group is the captured string (a token sequence); a match *)
(* of two groups is the tuple of the two captured strings.                 *)

NoMatch == [ok |-> FALSE, end |-> 0, m |-> [tuple |-> FALSE, g |-> <<>>]]
Found(e, isTuple, g) == [ok |-> TRUE, end |-> e, m |-> [tuple |-> isTuple, g |-> g]]

\* literal [:\s：]*(\d+\.?\d*)[時間hH]*   at the label token p
MatchLabel(rule, t, p) ==
    LET j == SkipCh(t, p + 1, rule.seps)
        hasDot == IsCh(t, j + 1, {"dot"})
        hasFrac == hasDot /\ IsDigits(t, j + 2)
        e == IF hasFrac THEN j + 3 ELSE IF hasDot THEN j + 2 ELSE j + 1
    IN  IF t[p].k = "label" /\ t[p].s \in rule.labels /\ IsDigits(t, j)
        THEN Found(SkipCh(t, e, UnitCh), FALSE, <<SubSeq(t, j, e - 1)>>)
        ELSE NoMatch

\* (\d+\.?\d+)\s*[時間hH]  and  (\d+\.?\d+)\s*hours?   at the digit run p:
\* the number is "A.B", or a run A of at least two digits
MatchBare(rule, t, p) ==
    LET follows(j) == IF rule.kind = "unit" THEN StartsWithUnit(t, j)
                                             ELSE StartsWithHour(t, j)
        jf == SkipCh(t, p + 3, {"ws"})
        ji == SkipCh(t, p + 1, {"ws"})
    IN  IF IsDigits(t, p) /\ IsCh(t, p + 1, {"dot"}) /\ IsDigits(t, p + 2) /\ follows(jf)
        THEN Found(jf + 1, FALSE, <<SubSeq(t, p, p + 2)>>)
        ELSE IF IsDigits(t, p) /\ t[p].n >= 2 /\ follows(ji)
        THEN Found(ji + 1, FALSE, <<SubSeq(t, p, p)>>)
        ELSE NoMatch

\* (\d+)[時:](\d+)[分]?   at the digit run p
MatchHM(rule, t, p) ==
    IF IsDigits(t, p) /\ IsCh(t, p + 1, {"ji", "colon"}) /\ IsDigits(t, p + 2)
    THEN Found(IF IsCh(t, p + 3, {"fun"}) THEN p + 4 ELSE p + 3, TRUE,
               <<SubSeq(t, p, p), SubSeq(t, p + 2, p + 2)>>)
    ELSE NoMatch

MatchAt(rule, t, p) ==
    IF rule.kind = "label" THEN MatchLabel(rule, t, p)
    ELSE IF rule.kind = "hm" THEN MatchHM(rule, t, p)
    ELSE MatchBare(rule, t, p)

RECURSIVE FindAllFrom(_, _, _)
FindAllFrom(rule, t, p) ==
    IF p > Len(t) THEN <<>>
    ELSE LET r == MatchAt(rule, t, p)
         IN  IF r.ok THEN <<r.m>> \o FindAllFrom(rule, t, r.end)
                     ELSE FindAllFrom(rule, t, p + 1)

findall(rule, t) == FindAllFrom(rule, t, 1)

----------------------------------------------------------------------------
(* float() and round(hours, 2) *)

\* float(s) raises ValueError unless s spells a number
FloatOK(s) ==
    \/ Len(s) = 1 /\ IsDigits(s, 1)
    \/ Len(s) = 2 /\ IsDigits(s, 1) /\ IsCh(s, 2, {"dot"})
    \/ Len(s) = 3 /\ IsDigits(s, 1) /\ IsCh(s, 2, {"dot"}) /\ IsDigits(s, 3)

\* float(s), in 1/Unit hour; exact for up to MaxFracDigits decimals
Float(s) ==
    s[1].v * Unit
    + (IF Len(s) = 3 THEN s[3].v * (Unit \div Pow10(s[3].n)) ELSE 0)

\* round(hours, 2), in hundredths.  No text of the model spells a number
\* that lies halfway between two hundredths.
Round2(hours) == (hours + Unit \div 200) \div (Unit \div 100)

----------------------------------------------------------------------------
(* extract_work_hours_smart: the matching loop *)

\* 1 <= hours <= 24
InDayRange(hours) == 1 * Unit <= hours /\ hours <= 24 * Unit
\* a bug: the wide range applied to the labelled tiers too
InMonthRangeLoose(hours) == 1 * Unit <= hours /\ hours <= 500 * Unit
\* 50 <= hours <= 500
InMonthRange(hours) == 50 * Unit <= hours /\ hours <= 500 * Unit
\* 1 <= hours <= 500
InWideRange(hours) == 1 * Unit <= hours /\ hours <= 500 * Unit

\* the range of a bare number under each tier; the Lowest tier has none
KeepBare(priority, hours) ==
    IF priority = "Critical" /\ InMonthRange(hours) THEN TRUE
    ELSE IF priority = "High" /\ InMonthRange(hours) THEN TRUE
    ELSE IF priority \in {"Medium", "Low"} /\ InWideRange(hours) THEN TRUE
    ELSE FALSE

\* a bug: the minutes read as hundredths of an hour
PairHoursDecimal(m) == Float(m.g[1]) + Float(m.g[2]) \div 100
\* float(match[0]) + float(match[1]) / 60
PairHours(m) == Float(m.g[1]) + Float(m.g[2]) \div 60

EmptyMatches == [p \in PrioritySet |-> <<>>]

\* all_matches[priority].append({...})
AppendCandidate(am, rule, r, hours, m) ==
    [am EXCEPT ![rule.priority] =
        Append(@, [value |-> Round2(hours),
                   description |-> IF m.tuple THEN <<rule.description, m.g[1], m.g[2]>>
                                               ELSE <<rule.description>>,
                   pattern |-> r])]

\* the body of "for match in matches" for the rule of index r
AddMatch(am, r, m) ==
    LET rule == priority_patterns[r]
    IN  IF m.tuple /\ Len(m.g) = 2
        THEN IF FloatOK(m.g[1]) /\ FloatOK(m.g[2]) /\ InDayRange(PairHours(m))
             THEN AppendCandidate(am, rule, r, PairHours(m), m)
             ELSE am
        ELSE IF FloatOK(m.g[1]) /\ KeepBare(rule.priority, Float(m.g[1]))
             THEN AppendCandidate(am, rule, r, Float(m.g[1]), m)
             ELSE am

RECURSIVE AddMatches(_, _, _, _)
AddMatches(am, r, matches, i) ==
    IF i > Len(matches) THEN am
    ELSE AddMatches(AddMatch(am, r, matches[i]), r, matches, i + 1)

\* "for priority, pattern, description in priority_patterns", from rule r on
RECURSIVE MatchRules(_, _, _)
MatchRules(am, t, r) ==
    IF r > Len(priority_patterns) THEN am
    ELSE MatchRules(AddMatches(am, r, findall(priority_patterns[r], t), 1), t, r + 1)

\* the trace lines the matching loop appends: one for each rule that matched
RECURSIVE MatchLines(_, _)
MatchLines(t, r) ==
    IF r > Len(priority_patterns) THEN <<>>
    ELSE LET matches == findall(priority_patterns[r], t)
         IN  (IF matches # <<>>
              THEN <<[kind |-> "match", priority |-> priority_patterns[r].priority,
                      pattern |-> r, matches |-> matches]>>
              ELSE <<>>) \o MatchLines(t, r + 1)

----------------------------------------------------------------------------
(* extract_work_hours_smart: the selection *)

\* unique_values: the first item of each value, in order
RECURSIVE UniqueItems(_, _, _)
UniqueItems(items, i, seen_values) ==
    IF i > Len(items) THEN <<>>
    ELSE IF items[i].value \notin seen_values
         THEN <<items[i]>> \o UniqueItems(items, i + 1, seen_values \cup {items[i].value})
         ELSE UniqueItems(items, i + 1, seen_values)

ValuesOf(items) == [i \in 1..Len(items) |-> items[i].value]

\* a bug: no tier stops the loop
NoStopTiers == {}
\* a bug: only the Critical tier stops the loop
OnlyCriticalStops == {"Critical"}
\* the tiers after which the loop breaks
StopTiers == {"Critical", "High"}

\* "for priority in [...]" from the tier of index i on; acc is
\* [selected_values, lines]
RECURSIVE SelectTiers(_, _, _)
SelectTiers(am, i, acc) ==
    IF i > Len(Priorities) THEN acc
    ELSE LET priority == Priorities[i]
             unique_values == UniqueItems(am[priority], 1, {})
             taken == [selected_values |-> acc.selected_values \o ValuesOf(unique_values),
                       lines |-> Append(acc.lines,
                                    [kind |-> "adopt", priority |-> priority,
                                     values |-> ValuesOf(unique_values)])]
         IN  IF am[priority] # <<>> /\ unique_values # <<>>
             THEN IF priority \in StopTiers /\ Len(unique_values) >= 1
                  THEN [taken EXCEPT !.lines =
                           Append(@, [kind |-> "decide", priority |-> priority])]
                  ELSE SelectTiers(am, i + 1, taken)
             ELSE SelectTiers(am, i + 1, acc)

\* sorted(list(set(values)))
RECURSIVE SortedSet(_)
SortedSet(S) ==
    IF S = {} THEN <<>>
    ELSE LET lo == CHOOSE x \in S : \A y \in S : x <= y
         IN  <<lo>> \o SortedSet(S \ {lo})

Range(seq) == {seq[i] : i \in 1..Len(seq)}

\* more than this many distinct values are cut down to the largest two
MaxKept == 3

\* a bug: the overflow rule left out
NarrowOff(selected) == SortedSet(Range(selected))
\* lines 296-299
Narrow(selected) ==
    LET sorted == SortedSet(Range(selected))
    IN  IF Len(sorted) > MaxKept THEN SubSeq(sorted, Len(sorted) - 1, Len(sorted))
                                 ELSE sorted

\* the first m characters of a text; a token cut short is no longer a token
\* any rule reads
RECURSIVE Take(_, _)
Take(t, m) ==
    IF t = <<>> \/ m = 0 THEN <<>>
    ELSE IF t[1].n <= m THEN <<t[1]>> \o Take(Tail(t), m - t[1].n)
    ELSE <<Tok("cut", t[1].s,
               IF t[1].k = "digits" THEN t[1].v \div Pow10(t[1].n - m) ELSE 0, m)>>

\* text[:300] of the first trace line
TracePrefix == 300

\* extract_work_hours_smart(text) without its write to the session:
\* the locals it ends with
extract_work_hours_smart(t) ==
    LET am == MatchRules(EmptyMatches, t, 1)
        sel == SelectTiers(am, 1, [selected_values |-> <<>>, lines |-> <<>>])
        sorted == SortedSet(Range(sel.selected_values))
        final == Narrow(sel.selected_values)
    IN  [all_matches |-> am,
         selected_values |-> sel.selected_values,
         final_results |-> final,
         debug_info |->
             <<[kind |-> "text", prefix |-> Take(t, TracePrefix)]>>
             \o MatchLines(t, 1)
             \o sel.lines
             \o (IF Len(sorted) > MaxKept THEN <<[kind |-> "narrow"]>> ELSE <<>>)
             \o <<[kind |-> "final", values |-> final]>>]

----------------------------------------------------------------------------
(* The session's debug trace *)

\* the key text[:50]
KeyLen == 50

\* st.session_state.debug_info[text[:50]] = debug_info
StoreTrace(d, t, lines) ==
    [k \in (DOMAIN d) \cup {Take(t, KeyLen)} |->
        IF k = Take(t, KeyLen) THEN lines ELSE d[k]]

NoTraces == [k \in {} |-> <<>>]

----------------------------------------------------------------------------
(* Texts for extract_work_hours_smart.  A text is a list of fields, one    *)
(* per line; a field is an optional label, a number and an optional unit.  *)

WS == Ch("ws")
DOT == Ch("dot")
Num(v, n) == <<Digits(v, n)>>
Dec(v, n, f, fn) == <<Digits(v, n), DOT, Digits(f, fn)>>

\* fields joined by line breaks
RECURSIVE Lines(_)
Lines(fs) ==
    IF fs = <<>> THEN <<>>
    ELSE IF Len(fs) = 1 THEN fs[1]
    ELSE fs[1] \o <<WS>> \o Lines(Tail(fs))

SeqsUpTo(S, n) == UNION {[1..k -> S] : k \in 0..n}

\* every label a rule spells, with a separator the rule accepts
AllLabels == {
    <<Label("kinmu_jikan", 4), Ch("fcolon")>>, <<Label("sou_kinmu_jikan", 5), Ch("colon")>>,
    <<Label("total_hours", 11), Ch("colon"), WS>>, <<Label("work_hours", 10), WS>>,
    <<Label("working_hours", 13), Ch("colon")>>,
    <<Label("goukei", 2), Ch("fcolon")>>, <<Label("sou_jikan", 3)>>,
    <<Label("total", 5), Ch("colon"), WS>>,
    <<Label("jitsudou", 2), WS>>, <<Label("jissai", 2), Ch("colon")>>,
    <<Label("net_hours", 9), WS>>, <<Label("actual", 6), Ch("colon")>>,
    <<Label("total", 5), Ch("fcolon")>>, <<>> }

\* numbers at and around the bounds of the ranges
EdgeNumbers == {
    Dec(0, 1, 99, 2), Dec(0, 1, 999, 3), Num(1, 1), Dec(1, 1, 0, 1), Num(12, 2),
    Dec(49, 2, 99, 2), Num(50, 2), Dec(176, 3, 5, 1), Num(500, 3),
    Dec(500, 3, 1, 2), Dec(500, 3, 1, 3), <<Digits(24, 2), DOT>> }

Units == { <<>>, <<Ch("ji"), Ch("kan")>>, <<Ch("h")>>, <<WS, Word("hours", 5)>> }

\* hour:minute fields at and around the bounds of a day
EdgePairs ==
    { Num(h, IF h < 10 THEN 1 ELSE 2) \o <<sep>> \o Num(m, 2) \o tail :
        h \in {0, 1, 8, 12, 23, 24, 25}, sep \in {Ch("ji"), Ch("colon")},
        m \in {0, 1, 20, 30, 59, 60}, tail \in {<<>>, <<Ch("fun")>>} }

EdgeTexts == { l \o x \o u : l \in AllLabels, x \in EdgeNumbers, u \in Units } \cup EdgePairs

\* the fields of the texts of several lines
WideFields ==
    { l \o x \o u :
        l \in { <<>>, <<Label("kinmu_jikan", 4), Ch("fcolon")>>,
                <<Label("goukei", 2), Ch("colon")>>, <<Label("jitsudou", 2), WS>> },
        x \in { Num(12, 2), Dec(160, 3, 5, 1) },
        u \in { <<>>, <<Ch("ji"), Ch("kan")>> } }
    \cup { <<Digits(8, 1), Ch("colon"), Digits(30, 2)>>,
           <<Digits(12, 2), Ch("ji"), Digits(30, 2), Ch("fun")>> }

WideTexts == { Lines(fs) : fs \in SeqsUpTo(WideFields, MaxFields) }

\* bare numbers with their unit: 10時間, 20時間, 150時間, 160時間, 12時20分
BareFields ==
    { Num(v, IF v < 100 THEN 2 ELSE 3) \o <<Ch("ji"), Ch("kan")>> : v \in {10, 20, 150, 160} }
    \cup { <<Digits(12, 2), Ch("ji"), Digits(20, 2), Ch("fun")>> }

BareTexts == { Lines(fs) : fs \in SeqsUpTo(BareFields, MaxBareFields) }

\* 176.5 under a Critical or a High label, before or after a wide field
TierTexts ==
    UNION { { Lines(<<l \o Dec(176, 3, 5, 1), f>>), Lines(<<f, l \o Dec(176, 3, 5, 1)>>) } :
              l \in { <<Label("sou_kinmu_jikan", 5), Ch("colon")>>,
                      <<Label("sou_jikan", 3), Ch("fcolon")>> },
              f \in WideFields }

Texts == EdgeTexts \cup WideTexts \cup BareTexts \cup TierTexts

----------------------------------------------------------------------------
(* Specification of extract_work_hours_smart as a function of its text *)

Idle ==
    /\ raw_name = <<>> /\ name_candidate = <<>> /\ valid = FALSE
    /\ raw_records = <<>> /\ unique_records = <<>>
    /\ PDF_SUPPORT = TRUE
    /\ uploaded_files = <<>> /\ processed_files = <<>>
    /\ messages = <<>> /\ table = <<>> /\ stats = [total_files |-> 0]
    /\ clicked = "none"
    /\ debug_info = NoTraces /\ debug_info_present = FALSE

HoursInit ==
    /\ stage = "input"
    /\ text \in Texts
    /\ all_matches = EmptyMatches
    /\ selected_values = <<>>
    /\ final_results = <<>>
    /\ Idle

\* one call of extract_work_hours_smart(text)
Extract ==
    /\ stage = "input"
    /\ LET r == extract_work_hours_smart(text)
       IN  /\ all_matches' = r.all_matches
           /\ selected_values' = r.selected_values
           /\ final_results' = r.final_results
           /\ debug_info' = StoreTrace(debug_info, text, r.debug_info)
    /\ debug_info_present' = TRUE
    /\ stage' = "done"
    /\ UNCHANGED <<text, name_vars, table_vars, session_vars>>

HoursNext == Extract

SpecHours == HoursInit /\ [][HoursNext]_vars

----------------------------------------------------------------------------
(* Employee names.  A name is spelled character by character, digits in    *)
(* maximal runs.  Characters a pattern names keep their identity:          *)
(*   kin mu = 勤務   ji kan = 時間   gou kei = 合計   jitsu seki = 実績      *)
(*   kou moku = 項目   shi mei = 氏名   sha in = 社員   mae = 前             *)
(*   shou nin = 承認   nichi = 日   suu = 数   getsu = 月   nen = 年         *)
(* the others stand for their class: hira (あ-ん), kata (ア-ン), kanji       *)
(* (一-龯), hira_small_a (ぁ, below あ), kata_small_a (ァ, below ア),        *)
(* kata_vu (ヴ, above ン), latin (A-Z, a-z), ws (a space), tab, nl, bar     *)
(* (│), pipe (|), colon, fcolon (：), hyphen, equals, other.               *)

\* kanji of the names in the documents: 田 中 太 郎 鈴 木 花 子
NameKanji == {"ta", "naka", "futo", "rou", "suzu", "ki", "hana", "ko"}
NamedKanji == {"kin", "mu", "ji", "kan", "gou", "kei", "jitsu", "seki", "kou", "moku",
               "shi", "mei", "sha", "in", "mae", "shou", "nin", "nichi", "suu",
               "getsu", "nen"}
Spell(ids) == [i \in 1..Len(ids) |-> Ch(ids[i])]

CharLen(name) ==
    LET RECURSIVE Sum(_)
        Sum(i) == IF i > Len(name) THEN 0 ELSE name[i].n + Sum(i + 1)
    IN  Sum(1)

\* \s
Space == {"ws", "tab", "nl"}
\* [あ-んア-ン一-龯]
KanaKanjiRange == {"hira", "kata", "kanji"} \cup NamedKanji \cup NameKanji
\* [A-Za-z]
LatinRange == {"latin"}

\* re.sub(pattern, repl, name) for a pattern that is one or more characters
\* of class S
RECURSIVE SubRuns(_, _, _)
SubRuns(name, S, repl) ==
    IF name = <<>> THEN <<>>
    ELSE IF IsCh(name, 1, S)
         THEN repl \o SubRuns(SubSeq(name, SkipCh(name, 1, S), Len(name)), S, repl)
         ELSE <<name[1]>> \o SubRuns(Tail(name), S, repl)

\* re.sub(r'^[...]+', '', name) and re.sub(r'[...]+$', '', name)
StripLeft(name, S) == SubSeq(name, SkipCh(name, 1, S), Len(name))
StripRight(name, S) ==
    LET last == CHOOSE j \in 0..Len(name) :
                    /\ \A k \in (j + 1)..Len(name) : IsCh(name, k, S)
                    /\ ~IsCh(name, j, S)
    IN  SubSeq(name, 1, last)

\* re.sub(r'\d+[日月年]', '', name)
RECURSIVE SubDates(_)
SubDates(name) ==
    IF name = <<>> THEN <<>>
    ELSE IF IsDigits(name, 1) /\ IsCh(name, 2, {"nichi", "getsu", "nen"})
         THEN SubDates(SubSeq(name, 3, Len(name)))
         ELSE <<name[1]>> \o SubDates(Tail(name))

\* 勤務|時間|合計|実績
FieldWords == {Spell(<<"kin", "mu">>), Spell(<<"ji", "kan">>),
               Spell(<<"gou", "kei">>), Spell(<<"jitsu", "seki">>)}

\* re.sub(r'勤務|時間|合計|実績', '', name): one pass, left to right
RECURSIVE SubFieldWords(_)
SubFieldWords(name) ==
    IF name = <<>> THEN <<>>
    ELSE IF Len(name) >= 2 /\ SubSeq(name, 1, 2) \in FieldWords
         THEN SubFieldWords(SubSeq(name, 3, Len(name)))
         ELSE <<name[1]>> \o SubFieldWords(Tail(name))

\* [:\s：\-\=]
EdgeMarks == {"colon", "fcolon", "hyphen", "equals"} \cup Space

\* str.strip()
Strip(name) == StripRight(StripLeft(name, Space), Space)

clean_employee_name(name) ==
    LET n1 == SubRuns(name, {"bar", "pipe", "tab", "nl"}, <<Ch("ws")>>)
        n2 == StripLeft(n1, EdgeMarks)
        n3 == StripRight(n2, EdgeMarks)
        n4 == SubDates(n3)
        n5 == SubFieldWords(n4)
        n6 == SubRuns(n5, Space, <<>>)
    IN  Strip(n6)

\* re.match(r'^\d+$', name): $ also matches before a final line break
OnlyDigits(name) ==
    /\ name # <<>>
    /\ IsDigits(name, 1)
    /\ \A i \in 1..(Len(name) - 1) : IsDigits(name, i)
    /\ IsDigits(name, Len(name)) \/ IsCh(name, Len(name), {"nl"})

\* 項目 氏名 社員名 名前 時間 勤務 合計 実績 承認 社員 勤務日数
StopNames == {
    Spell(<<"kou", "moku">>), Spell(<<"shi", "mei">>), Spell(<<"sha", "in", "mei">>),
    Spell(<<"mei", "mae">>), Spell(<<"ji", "kan">>), Spell(<<"kin", "mu">>),
    Spell(<<"gou", "kei">>), Spell(<<"jitsu", "seki">>), Spell(<<"shou", "nin">>),
    Spell(<<"sha", "in">>), Spell(<<"kin", "mu", "nichi", "suu">>) }

MinNameLen == 2
MaxNameLen == 20

\* re.match(r'^[...]+$', name) for a class S of characters
AllOf(name, S) == name # <<>> /\ \A i \in 1..Len(name) : IsCh(name, i, S)

is_valid_employee_name(name) ==
    IF name = <<>> \/ CharLen(name) < MinNameLen THEN FALSE
    ELSE IF CharLen(name) > MaxNameLen THEN FALSE
    ELSE IF OnlyDigits(name) THEN FALSE
    ELSE IF name \in StopNames THEN FALSE
    ELSE IF AllOf(name, KanaKanjiRange \cup Space) THEN TRUE
    ELSE IF AllOf(name, LatinRange \cup Space) THEN TRUE
    ELSE FALSE

----------------------------------------------------------------------------
(* Specification of the name check of a table row:                         *)
(* name_candidate = clean_employee_name(match[0].strip()), then            *)
(* is_valid_employee_name(name_candidate).                                 *)

\* characters of the short names
MaxShortName == 3
\* characters of the long names
MaxLongName == 21

NameChars == { Ch(c) : c \in {"kanji", "hira", "kata", "kata_vu", "hira_small_a",
                               "latin", "ws", "hyphen", "nichi", "shi", "mei"} }
               \cup { Digits(7, 1) }

Repeat(c, n) == [i \in 1..n |-> c]

\* digits are spelled in maximal runs: no digit token follows another
MaximalRuns(t) == \A i \in 1..(Len(t) - 1) : ~(IsDigits(t, i) /\ IsDigits(t, i + 1))

\* every short name, the names a field word turns into, and long names of
\* one character, alone or after a digit or a Latin letter
RawNames ==
    { n \in SeqsUpTo(NameChars, MaxShortName) : MaximalRuns(n) }
    \cup StopNames
    \cup { w \o <<c>> : w \in FieldWords \cup StopNames, c \in NameChars }
    \cup { h \o Repeat(Ch(c), n) :
             h \in {<<>>, <<Digits(12, 2)>>, <<Ch("latin")>>},
             c \in {"kanji", "latin", "kata_vu"}, n \in 0..MaxLongName }
    \cup { <<Digits(1234567, n)>> : n \in 7..MaxLongName }

NameInit ==
    /\ stage = "input"
    /\ raw_name \in RawNames
    /\ name_candidate = <<>> /\ valid = FALSE
    /\ raw_records = <<>> /\ unique_records = <<>>
    /\ text = <<>> /\ all_matches = EmptyMatches
    /\ selected_values = <<>> /\ final_results = <<>>
    /\ PDF_SUPPORT = TRUE
    /\ uploaded_files = <<>> /\ processed_files = <<>>
    /\ messages = <<>> /\ table = <<>> /\ stats = [total_files |-> 0]
    /\ clicked = "none"
    /\ debug_info = NoTraces /\ debug_info_present = FALSE

CheckName ==
    /\ stage = "input"
    /\ name_candidate' = clean_employee_name(Strip(raw_name))
    /\ valid' = is_valid_employee_name(name_candidate')
    /\ stage' = "done"
    /\ UNCHANGED <<raw_name, text, all_matches, selected_values, final_results,
                   table_vars, session_vars, trace_vars>>

NameNext == CheckName

SpecName == NameInit /\ [][NameNext]_vars

----------------------------------------------------------------------------
(* The table extractor.  The pattern families 表形式, リスト形式, 縦形式 are   *)
(* written hyou, list, tate.  A text that reaches the table and name        *)
(* extractors is a record: its tokens, what re.findall returns on it for    *)
(* each of the nine table patterns (table_matches, pairs of name and hours  *)
(* as the pattern captured them) and what re.search returns on it for each  *)
(* of the ten name patterns (name_matches).                                 *)

\* all_patterns in the order the loops of lines 99-100 visit it
all_patterns ==
    [i \in 1..9 |->
        [pattern_type |-> <<"hyou", "list", "tate">>[((i - 1) \div 3) + 1],
         pattern_index |-> ((i - 1) % 3) + 1]]

\* text[:200] of the first trace line
TablePrefix == 200

\* line 116
MinTableHours == 10
MaxTableHours == 500
InTableRange(hours) == MinTableHours * Unit <= hours /\ hours <= MaxTableHours * Unit

\* lines 117-123: a record added to employees_data, and its trace line
AddEmployee(acc, p, name, hours) ==
    [employees_data |->
        Append(acc.employees_data,
               [name |-> name, hours |-> hours,
                pattern_type |-> all_patterns[p].pattern_type,
                pattern_index |-> all_patterns[p].pattern_index]),
     debug_info |->
        Append(acc.debug_info, [kind |-> "added", name |-> name, hours |-> hours])]

\* lines 113-125: a cleaned name and the hours the pattern captured with it
AddCandidate(acc, p, name_candidate_, hours_candidate) ==
    IF /\ is_valid_employee_name(name_candidate_)
       /\ FloatOK(hours_candidate)
       /\ InTableRange(Float(hours_candidate))
    THEN AddEmployee(acc, p, name_candidate_, Float(hours_candidate))
    ELSE acc

\* lines 107-125: one match of a pattern; acc holds employees_data and debug_info
AddTableMatch(acc, p, match) ==
    AddCandidate(acc, p, clean_employee_name(Strip(match[1])), Strip(match[2]))

\* lines 106-125: the matches of one pattern, in order
RECURSIVE AddTableMatches(_, _, _, _)
AddTableMatches(acc, p, matches, i) ==
    IF i > Len(matches) THEN acc
    ELSE AddTableMatches(AddTableMatch(acc, p, matches[i]), p, matches, i + 1)

\* lines 99-128: the patterns from p on
RECURSIVE TablePatterns(_, _, _)
TablePatterns(acc, txt, p) ==
    IF p > Len(all_patterns) THEN acc
    ELSE LET matches == txt.table_matches[p]
             started == [acc EXCEPT !.debug_info =
                            Append(@, [kind |-> "matched",
                                       pattern_type |-> all_patterns[p].pattern_type,
                                       pattern_index |-> all_patterns[p].pattern_index,
                                       count |-> Len(matches)])]
         IN  IF matches = <<>> THEN TablePatterns(acc, txt, p + 1)
             ELSE TablePatterns(AddTableMatches(started, p, matches, 1), txt, p + 1)

\* a bug: the record seen first is never replaced
KeepExisting(unique_employees, emp) == unique_employees
\* unique_employees with its first record of that name replaced by emp
ReplaceFirst(unique_employees, emp) ==
    LET i == CHOOSE j \in 1..Len(unique_employees) :
                 /\ unique_employees[j].name = emp.name
                 /\ \A k \in 1..(j - 1) : unique_employees[k].name # emp.name
    IN  [unique_employees EXCEPT ![i] = emp]

\* lines 172-185: the records from i on
RECURSIVE DedupeFrom(_, _, _, _)
DedupeFrom(employees_data, i, seen_names, unique_employees) ==
    IF i > Len(employees_data) THEN unique_employees
    ELSE LET emp == employees_data[i]
         IN  IF emp.name \notin DOMAIN seen_names
             THEN DedupeFrom(employees_data, i + 1, seen_names @@ (emp.name :> emp),
                             Append(unique_employees, emp))
             ELSE IF /\ emp.pattern_type = "hyou"
                     /\ seen_names[emp.name].pattern_type # "hyou"
                  THEN DedupeFrom(employees_data, i + 1,
                                  [seen_names EXCEPT ![emp.name] = emp],
                                  ReplaceFirst(unique_employees, emp))
                  ELSE DedupeFrom(employees_data, i + 1, seen_names, unique_employees)

remove_duplicate_employees(employees_data) ==
    DedupeFrom(employees_data, 1, [n \in {} |-> <<>>], <<>>)

\* lines 131-134
Deduplicated(found, unique_employees) ==
    [employees_data |-> unique_employees,
     debug_info |-> Append(found.debug_info,
                           [kind |-> "unique", count |-> Len(unique_employees)])]

\* lines 130-134: after the loops
AfterPatterns(found) ==
    Deduplicated(found, remove_duplicate_employees(found.employees_data))

extract_multiple_employees_from_table(txt) ==
    AfterPatterns(TablePatterns(
        [employees_data |-> <<>>,
         debug_info |-> <<[kind |-> "start", prefix |-> Take(txt.tokens, TablePrefix)]>>],
        txt, 1))

----------------------------------------------------------------------------
(* Specification of remove_duplicate_employees as a function of its list:  *)
(* raw records in any order, of two names, the three pattern families and  *)
(* two values of hours.                                                     *)

\* records in a list
MaxRecords == 3

Records ==
    { [name |-> n, hours |-> h, pattern_type |-> all_patterns[p].pattern_type,
       pattern_index |-> all_patterns[p].pattern_index] :
        n \in { Spell(<<"ta", "naka", "futo", "rou">>), Spell(<<"suzu", "ki", "hana", "ko">>) },
        h \in { 160 * Unit, 176 * Unit + Unit \div 2 },
        p \in {1, 4, 7} }

DedupeInit ==
    /\ stage = "input"
    /\ raw_records \in SeqsUpTo(Records, MaxRecords)
    /\ unique_records = <<>>
    /\ text = <<>> /\ all_matches = EmptyMatches
    /\ selected_values = <<>> /\ final_results = <<>>
    /\ raw_name = <<>> /\ name_candidate = <<>> /\ valid = FALSE
    /\ PDF_SUPPORT = TRUE
    /\ uploaded_files = <<>> /\ processed_files = <<>>
    /\ messages = <<>> /\ table = <<>> /\ stats = [total_files |-> 0]
    /\ clicked = "none"
    /\ debug_info = NoTraces /\ debug_info_present = FALSE

\* one call of remove_duplicate_employees(raw_records)
Deduplicate ==
    /\ stage = "input"
    /\ unique_records' = remove_duplicate_employees(raw_records)
    /\ stage' = "done"
    /\ UNCHANGED <<raw_records, text, all_matches, selected_values, final_results,
                   name_vars, session_vars, trace_vars>>

DedupeNext == Deduplicate

SpecDedupe == DedupeInit /\ [][DedupeNext]_vars

----------------------------------------------------------------------------
(* extract_employee_name *)

\* the name returned when no pattern gives one: 不明
Unknown == <<Word("fumei", 2)>>

\* re.search found nothing / found a match with this group(1)
NoSearchMatch == [found |-> FALSE, group |-> <<>>]
SearchMatch(g) == [found |-> TRUE, group |-> g]

\* str.isdigit()
IsDigitString(name) == name # <<>> /\ \A i \in 1..Len(name) : IsDigits(name, i)

\* lines 331-339: the patterns from i on
RECURSIVE NameFrom(_, _)
NameFrom(txt, i) ==
    IF i > Len(txt.name_matches) THEN Unknown
    ELSE LET match == txt.name_matches[i]
             name == StripRight(Strip(match.group), {"colon"} \cup Space)
         IN  IF match.found /\ CharLen(name) > 1 /\ ~IsDigitString(name)
             THEN name
             ELSE NameFrom(txt, i + 1)

extract_employee_name(txt) == NameFrom(txt, 1)

----------------------------------------------------------------------------
(* Files and text acquisition.  An uploaded file is its name, split at the  *)
(* dots, and what the OCR or PDF library makes of its content: a text, or   *)
(* an exception.                                                            *)

NoText == [tokens |-> <<>>, table_matches |-> [i \in 1..9 |-> <<>>],
           name_matches |-> [i \in 1..10 |-> NoSearchMatch]]

\* str.lower() on the extensions of the files
Lower(s) == CASE s = "JPG" -> "jpg" [] s = "PNG" -> "png" [] s = "PDF" -> "pdf" [] OTHER -> s

\* uploaded_file.name.split('.')[-1].lower()
FileExtension(uploaded_file) == Lower(uploaded_file.name[Len(uploaded_file.name)])

ImageTypes == {"png", "jpg", "jpeg", "bmp", "tiff"}

\* None, and the truth value of an error
None == "None"
IsError(error) == error \notin {None, ""}

extract_text_from_image(image_file) ==
    IF image_file.opens THEN [text |-> image_file.content, error |-> None]
    ELSE [text |-> NoText, error |-> "image_error"]

extract_text_from_pdf(pdf_file) ==
    IF ~PDF_SUPPORT THEN [text |-> NoText, error |-> "pdf_unavailable"]
    ELSE IF pdf_file.opens THEN [text |-> pdf_file.content, error |-> None]
    ELSE [text |-> NoText, error |-> "pdf_error"]

----------------------------------------------------------------------------
(* process_file_multi_person.  The session is the pair of                   *)
(* st.session_state.debug_info and its presence.  processed_at is the       *)
(* reading of the clock; no step of the program reads it back, and it is    *)
(* written "now".                                                           *)

\* lines 305-309: the return value of a call and the session after it
Returned(session, t, r) ==
    [final_results |-> r.final_results,
     session |-> [debug_info |-> StoreTrace(session.debug_info, t, r.debug_info),
                  debug_info_present |-> TRUE]]

\* a bug: a text whose trace is already held is taken as reported, and
\* nothing is returned for it
CallExtractorSkippingKnown(session, t) ==
    IF Take(t, KeyLen) \in DOMAIN session.debug_info
    THEN [final_results |-> <<>>, session |-> session]
    ELSE Returned(session, t, extract_work_hours_smart(t))
\* extract_work_hours_smart(text) in a session
CallExtractor(session, t) == Returned(session, t, extract_work_hours_smart(t))

\* a bug: one table record is enough for a multi_person result
IsMultiPersonFromOne(employees_data) == Len(employees_data) >= 1
\* line 359
IsMultiPerson(employees_data) == Len(employees_data) > 1

NoResult == [type |-> "None"]

\* lines 373-380
SinglePerson(uploaded_file, txt, single_employee_name, single_work_hours) ==
    [result |-> [type |-> "single_person",
                 raw_text |-> txt.tokens,
                 employee_name |-> single_employee_name,
                 work_hours |-> single_work_hours.final_results,
                 file_name |-> uploaded_file.name,
                 processed_at |-> "now"],
     error |-> None, session |-> single_work_hours.session]

\* lines 359-380: the result for a text and what the table extractor
\* returned for it
Classify(uploaded_file, session, txt, table_result) ==
    IF IsMultiPerson(table_result.employees_data)
    THEN [result |-> [type |-> "multi_person",
                      raw_text |-> txt.tokens,
                      employees |-> table_result.employees_data,
                      file_name |-> uploaded_file.name,
                      processed_at |-> "now",
                      debug_info |-> table_result.debug_info],
          error |-> None, session |-> session]
    ELSE SinglePerson(uploaded_file, txt, extract_employee_name(txt),
                      CallExtractor(session, txt.tokens))

\* lines 352-356: after the acquisition of the text
Acquired(uploaded_file, session, acquired) ==
    IF IsError(acquired.error)
    THEN [result |-> NoResult, error |-> acquired.error, session |-> session]
    ELSE Classify(uploaded_file, session, acquired.text,
                  extract_multiple_employees_from_table(acquired.text))

process_file_multi_person(uploaded_file, session) ==
    IF FileExtension(uploaded_file) \in ImageTypes
    THEN Acquired(uploaded_file, session, extract_text_from_image(uploaded_file))
    ELSE IF FileExtension(uploaded_file) = "pdf"
    THEN Acquired(uploaded_file, session, extract_text_from_pdf(uploaded_file))
    ELSE [result |-> NoResult, error |-> "unsupported", session |-> session]

----------------------------------------------------------------------------
(* process_files_multi, display_results_multi and the sidebar of main *)

RECURSIVE SumSeq(_)
SumSeq(s) == IF s = <<>> THEN 0 ELSE s[1] + SumSeq(Tail(s))

\* sum([emp['hours'] for emp in employees]), in 1/Unit hour
SumHours(employees) == SumSeq([i \in 1..Len(employees) |-> employees[i].hours])

\* sum(work_hours) if work_hours else 0, in hundredths of an hour
WorkHoursTotal(work_hours) == IF work_hours # <<>> THEN SumSeq(work_hours) ELSE 0

\* f"{x:.<digits>f}時間" for x counted in 1/per hour: the number of
\* 10^-digits hours shown before the suffix 時間 (jikan).  No total of the
\* model lies halfway between two of them.
Fixed(x, per, digits) ==
    [kind |-> "jikan", digits |-> digits,
     shown |-> (2 * x * Pow10(digits) + per) \div (2 * per)]

\* "未検出"
NotDetected == [kind |-> "mikenshutsu"]

\* lines 497-504: the st.success of a result
SuccessMessage(result) ==
    IF result.type = "multi_person"
    THEN [kind |-> "success", file_name |-> result.file_name, type |-> "multi_person",
          people_count |-> Len(result.employees),
          hours |-> Fixed(SumHours(result.employees), Unit, 1)]
    ELSE [kind |-> "success", file_name |-> result.file_name, type |-> "single_person",
          hours |-> Fixed(WorkHoursTotal(result.work_hours), 100, 1)]

\* lines 492-504: the outcome of a file added to what the batch has so far;
\* st holds processed_files, the session and the messages shown
Report(st, uploaded_file, out) ==
    IF IsError(out.error)
    THEN [processed_files |-> st.processed_files,
          session |-> out.session,
          messages |-> Append(st.messages,
                              [kind |-> "error", file_name |-> uploaded_file.name,
                               error |-> out.error])]
    ELSE [processed_files |-> Append(st.processed_files, out.result),
          session |-> out.session,
          messages |-> Append(st.messages, SuccessMessage(out.result))]

\* lines 488-506: one turn of the loop
ProcessOne(st, uploaded_file) ==
    Report(st, uploaded_file, process_file_multi_person(uploaded_file, st.session))

\* whether the last message shown is an error
EndsInError(st) == st.messages[Len(st.messages)].kind = "error"
\* a bug: the first file that fails ends the batch
AbortingStep(files, after) ==
    IF EndsInError(after) THEN <<>> ELSE Tail(files)
\* line 487: the files left to visit after one has been reported
RestOfBatch(files, after) == Tail(files)

RECURSIVE process_files_multi(_, _)

\* the loop goes on with them
Continue(files, after) == process_files_multi(RestOfBatch(files, after), after)

\* lines 487-506: the loop over the uploaded files
process_files_multi(files, st) ==
    IF files = <<>> THEN st
    ELSE Continue(files, ProcessOne(st, files[1]))

\* lines 517-534: the rows of one result
RowsOf(file_data) ==
    IF file_data.type = "multi_person"
    THEN [i \in 1..Len(file_data.employees) |->
             [file_name |-> file_data.file_name,
              name |-> file_data.employees[i].name,
              hours |-> Fixed(file_data.employees[i].hours, Unit, 2),
              method |-> "hyou",
              processed_at |-> file_data.processed_at]]
    ELSE LET total_hours == WorkHoursTotal(file_data.work_hours)
         IN  <<[file_name |-> file_data.file_name,
                name |-> file_data.employee_name,
                hours |-> IF total_hours > 0 THEN Fixed(total_hours, 100, 2)
                                             ELSE NotDetected,
                method |-> "single",
                processed_at |-> file_data.processed_at]>>

\* lines 515-539: the table display_results_multi shows
RECURSIVE display_results_multi(_)
display_results_multi(files) ==
    IF files = <<>> THEN <<>>
    ELSE RowsOf(files[1]) \o display_results_multi(Tail(files))

\* lines 443-457: the three metrics of the sidebar
RECURSIVE TotalPeople(_)
TotalPeople(files) ==
    IF files = <<>> THEN 0
    ELSE (IF files[1].type = "multi_person" THEN Len(files[1].employees) ELSE 1)
         + TotalPeople(Tail(files))
RECURSIVE TotalHours(_)
TotalHours(files) ==
    IF files = <<>> THEN 0
    ELSE (IF files[1].type = "multi_person" THEN SumHours(files[1].employees)
          ELSE WorkHoursTotal(files[1].work_hours) * (Unit \div 100))
         + TotalHours(Tail(files))
NoStats == [total_files |-> 0]
Stats(files) ==
    IF files = <<>> THEN NoStats
    ELSE [total_files |-> Len(files), total_people |-> TotalPeople(files),
          total_hours |-> Fixed(TotalHours(files), Unit, 1)]

----------------------------------------------------------------------------
(* The documents of the session.                                            *)
(*   table.pdf    │田中太郎│176.5│ / │鈴木花子│160.0│      two table rows     *)
(*   smith.png    Name: John Smith / Total Hours: 168.0h  one table row      *)
(*   memo.PNG     氏名：田中太郎                            a name, no hours   *)
(*   blurred.JPG  an image the OCR library cannot open                       *)
(* table_matches and name_matches are what the patterns of lines 73-91 and  *)
(* 313-329 find in these texts.                                             *)

Tanaka == Spell(<<"ta", "naka", "futo", "rou">>)
Suzuki == Spell(<<"suzu", "ki", "hana", "ko">>)
TotalHoursWords == Repeat(Ch("latin"), 5) \o <<Ch("ws")>> \o Repeat(Ch("latin"), 5)
JohnSmith == <<Word("John", 4), Ch("ws"), Word("Smith", 5)>>

NoTableMatches == [i \in 1..9 |-> <<>>]
NoNameMatches == [i \in 1..10 |-> NoSearchMatch]

TextTable ==
    [tokens |-> <<Ch("bar")>> \o Tanaka \o <<Ch("bar")>> \o Dec(176, 3, 5, 1)
                \o <<Ch("bar"), WS, Ch("bar")>> \o Suzuki \o <<Ch("bar")>>
                \o Dec(160, 3, 0, 1) \o <<Ch("bar"), WS>>,
     table_matches |-> [NoTableMatches EXCEPT
                           ![1] = << <<Tanaka, Dec(176, 3, 5, 1)>>,
                                     <<Suzuki, Dec(160, 3, 0, 1)>> >>],
     name_matches |-> NoNameMatches]

TextSmith ==
    [tokens |-> <<Word("name", 4), Ch("colon"), WS, Word("john", 4), WS,
                  Word("smith", 5), WS, Label("total_hours", 11), Ch("colon"), WS>>
                \o Dec(168, 3, 0, 1) \o <<Ch("h")>>,
     table_matches |-> [NoTableMatches EXCEPT
                           ![3] = << <<TotalHoursWords \o <<Ch("colon")>>, Dec(168, 3, 0, 1)>> >>,
                           ![5] = << <<TotalHoursWords, Dec(168, 3, 0, 1)>> >>,
                           ![6] = << <<TotalHoursWords \o <<Ch("colon")>>, Dec(168, 3, 0, 1)>> >>],
     name_matches |-> [NoNameMatches EXCEPT ![6] = SearchMatch(JohnSmith)]]

TextMemo ==
    [tokens |-> Spell(<<"shi", "mei", "fcolon">>) \o Tanaka,
     table_matches |-> NoTableMatches,
     name_matches |-> [NoNameMatches EXCEPT ![1] = SearchMatch(Tanaka),
                                            ![9] = SearchMatch(Tanaka)]]

Files == {
    [name |-> <<"table", "pdf">>, opens |-> TRUE, content |-> TextTable],
    [name |-> <<"smith", "png">>, opens |-> TRUE, content |-> TextSmith],
    [name |-> <<"memo", "PNG">>, opens |-> TRUE, content |-> TextMemo],
    [name |-> <<"blurred", "JPG">>, opens |-> FALSE, content |-> NoText] }

----------------------------------------------------------------------------
(* Specification of the session: each action is one run of main, started   *)
(* by a change of the uploader's selection or by a button.                  *)

\* files the uploader holds at once
MaxBatch == 2
\* results the session accumulates
MaxProcessed == 3

\* line 425: the extensions the uploader accepts
AcceptedTypes == IF PDF_SUPPORT THEN {"pdf"} \cup ImageTypes ELSE ImageTypes

SessionInit ==
    /\ stage = "main"
    /\ text = <<>> /\ all_matches = EmptyMatches
    /\ selected_values = <<>> /\ final_results = <<>>
    /\ raw_name = <<>> /\ name_candidate = <<>> /\ valid = FALSE
    /\ raw_records = <<>> /\ unique_records = <<>>
    /\ PDF_SUPPORT \in BOOLEAN
    /\ uploaded_files = <<>>
    /\ processed_files = <<>>
    /\ debug_info = NoTraces /\ debug_info_present = FALSE
    /\ messages = <<>> /\ table = <<>> /\ stats = NoStats
    /\ clicked = "none"

\* lines 439-463: the sidebar metrics and the result table of a run of main
\* that ends with these processed_files
Show(files) ==
    /\ stats' = Stats(files)
    /\ table' = display_results_multi(files)

\* the user adds a file to the uploader
AddFile ==
    \E f \in Files :
        /\ Len(uploaded_files) < MaxBatch
        /\ FileExtension(f) \in AcceptedTypes
        /\ f \notin Range(uploaded_files)
        /\ uploaded_files' = Append(uploaded_files, f)
        /\ clicked' = "none"
        /\ messages' = <<>>
        /\ Show(processed_files)
        /\ UNCHANGED <<hours_vars, name_vars, table_vars, PDF_SUPPORT, processed_files, trace_vars>>

\* the user takes a file out of the uploader
RemoveFile ==
    \E i \in 1..Len(uploaded_files) :
        /\ uploaded_files' = SubSeq(uploaded_files, 1, i - 1)
                             \o SubSeq(uploaded_files, i + 1, Len(uploaded_files))
        /\ clicked' = "none"
        /\ messages' = <<>>
        /\ Show(processed_files)
        /\ UNCHANGED <<hours_vars, name_vars, table_vars, PDF_SUPPORT, processed_files, trace_vars>>

\* the session after a batch
Commit(after) ==
    /\ processed_files' = after.processed_files
    /\ debug_info' = after.session.debug_info
    /\ debug_info_present' = after.session.debug_info_present
    /\ messages' = after.messages

\* lines 431-432: the process button
ClickProcess ==
    /\ uploaded_files # <<>>
    /\ Len(processed_files) + Len(uploaded_files) <= MaxProcessed
    /\ Commit(process_files_multi(
                  uploaded_files,
                  [processed_files |-> processed_files,
                   session |-> [debug_info |-> debug_info,
                                debug_info_present |-> debug_info_present],
                   messages |-> <<>>]))
    /\ clicked' = "process"
    /\ Show(processed_files')
    /\ UNCHANGED <<hours_vars, name_vars, table_vars, PDF_SUPPORT, uploaded_files>>

\* lines 435-436: the clear button
ClickClear ==
    /\ processed_files' = <<>>
    /\ clicked' = "clear"
    /\ messages' = <<>>
    /\ Show(processed_files')
    /\ UNCHANGED <<hours_vars, name_vars, table_vars, PDF_SUPPORT, uploaded_files, trace_vars>>

SessionNext == AddFile \/ RemoveFile \/ ClickProcess \/ ClickClear

SpecSession == SessionInit /\ [][SessionNext]_vars

----------------------------------------------------------------------------
(* Properties of extract_work_hours_smart, checked under SpecHours *)

RuleIndex == 1..Len(priority_patterns)
MatchesOf(r) == findall(priority_patterns[r], text)

\* the numbers (in 1/Unit hour) the bare-number rules of tier p match in text
TierNumbers(p) ==
    { Float(m.g[1]) :
        m \in UNION { Range(MatchesOf(r)) :
                        r \in { q \in RuleIndex : /\ priority_patterns[q].priority = p
                                                  /\ priority_patterns[q].kind # "hm" } } }

\* hundredths of a number of at most two decimals
Hundredths(hours) == hours \div (Unit \div 100)

\* the trace the call stored, and the tiers whose values it says were adopted
TraceOf == debug_info[Take(text, KeyLen)]
AdoptedTiers ==
    { TraceOf[i].priority : i \in { j \in 1..Len(TraceOf) : TraceOf[j].kind = "adopt" } }

CandidateValues(p) == { all_matches[p][i].value : i \in 1..Len(all_matches[p]) }

\* C1 as claimed: whenever a Critical rule and a Low rule both match in the
\* text, the selection holds Critical-labelled values only and the Low tier
\* contributes nothing.
C1_Original ==
    (stage = "done" /\ TierNumbers("Critical") # {} /\ TierNumbers("Low") # {})
    => /\ "Low" \notin AdoptedTiers
       /\ Range(final_results) \subseteq { Round2(x) : x \in TierNumbers("Critical") }

\* C1 as amended: whenever a Critical rule matches a number inside [50, 500]
\* and a Low rule matches, the selection holds only numbers a Critical rule
\* matched inside [50, 500], and Critical is the only tier that contributes.
C1_EarlyStop ==
    LET good == { x \in TierNumbers("Critical") : 50 * Unit <= x /\ x <= 500 * Unit }
    IN  (stage = "done" /\ good # {} /\ TierNumbers("Low") # {})
        => /\ AdoptedTiers = {"Critical"}
           /\ final_results # <<>>
           /\ Range(final_results) \subseteq { Round2(x) : x \in good }

\* a Critical value in range next to a different Low value, which is left out
C1_Witness ==
    /\ stage = "done"
    /\ all_matches["Critical"] # <<>>
    /\ CandidateValues("Low") \ CandidateValues("Critical") # {}
    /\ Range(final_results) = CandidateValues("Critical")

SetMax(S) == CHOOSE x \in S : \A y \in S : y <= x

\* C2: the selection is strictly ascending; more than three distinct
\* accumulated values leave exactly the two largest, three or fewer are all
\* kept; {10, 20, 150, 160} gives {150, 160}; never more than three entries.
C2_Shape ==
    stage = "done" =>
        LET D == Range(selected_values)
        IN  /\ \A i \in 1..(Len(final_results) - 1) : final_results[i] < final_results[i + 1]
            /\ Len(final_results) <= 3
            /\ Cardinality(D) > 3 =>
                  final_results = <<SetMax(D \ {SetMax(D)}), SetMax(D)>>
            /\ Cardinality(D) <= 3 =>
                  /\ Range(final_results) = D
                  /\ Len(final_results) = Cardinality(D)
            /\ D = {1000, 2000, 15000, 16000} => final_results = <<15000, 16000>>

\* the four Low values 10, 20, 150, 160 cut down to 150, 160
C2_Witness ==
    /\ stage = "done"
    /\ Range(selected_values) = {1000, 2000, 15000, 16000}
    /\ final_results = <<15000, 16000>>

\* the lower bound the claim gives each tier's bare numbers
ClaimedLow(p) == IF p \in {"Critical", "High"} THEN 50 ELSE 1

\* C4: the candidates a bare-number rule leaves in its tier are exactly its
\* matches whose value lies in the tier's range, bounds included: [50, 500]
\* for Critical and High, [1, 500] for Medium and Low; a 12 matched by a
\* Critical rule is not among the Critical candidates.
C4_RangeFilter ==
    stage = "done" =>
        /\ \A r \in RuleIndex :
              priority_patterns[r].kind # "hm" =>
                 LET p == priority_patterns[r].priority
                     kept == SelectSeq(all_matches[p], LAMBDA c : c.pattern = r)
                     inside == SelectSeq(MatchesOf(r),
                                  LAMBDA m : /\ ClaimedLow(p) * Unit <= Float(m.g[1])
                                             /\ Float(m.g[1]) <= 500 * Unit)
                 IN  ValuesOf(kept) = [i \in 1..Len(inside) |-> Round2(Float(inside[i].g[1]))]
        /\ 12 * Unit \in TierNumbers("Critical") => 1200 \notin CandidateValues("Critical")

\* a 12 under a Critical label, rejected
C4_Witness ==
    /\ stage = "done"
    /\ 12 * Unit \in TierNumbers("Critical")
    /\ all_matches["Critical"] = <<>>

\* the hour:minute rule and its matches, as minutes
PairRule == CHOOSE r \in RuleIndex : priority_patterns[r].kind = "hm"
Minutes(m) == 60 * m.g[1][1].v + m.g[2][1].v
KeptPairs == SelectSeq(MatchesOf(PairRule), LAMBDA m : 60 <= Minutes(m) /\ Minutes(m) <= 24 * 60)
FromPairRule(p) == SelectSeq(all_matches[p], LAMBDA c : c.pattern = PairRule)

\* C5 as claimed: the candidates of the hour:minute rule are its matches with
\* 1 <= hour + minute/60 <= 24, each valued exactly hour + minute/60 and
\* recorded under the Lowest tier only.
C5_Original ==
    stage = "done" =>
        /\ \A p \in PrioritySet \ {"Lowest"} : FromPairRule(p) = <<>>
        /\ Len(FromPairRule("Lowest")) = Len(KeptPairs)
        /\ \A i \in 1..Len(KeptPairs) :
              60 * FromPairRule("Lowest")[i].value = 100 * Minutes(KeptPairs[i])

\* C5 as amended: the same, with the value hour + minute/60 rounded to two
\* decimals (8:30 gives 8.5, 8:20 gives 8.33).
C5_PairValue ==
    stage = "done" =>
        /\ \A p \in PrioritySet \ {"Lowest"} : FromPairRule(p) = <<>>
        /\ FromPairRule("Lowest") = all_matches["Lowest"]
        /\ ValuesOf(all_matches["Lowest"])
              = [i \in 1..Len(KeptPairs) |-> (100 * Minutes(KeptPairs[i]) + 30) \div 60]
        /\ \A i \in 1..Len(KeptPairs) :
              Minutes(KeptPairs[i]) = 8 * 60 + 30 => all_matches["Lowest"][i].value = 850

\* 8:30 kept as 8.5 under Lowest and selected
C5_Witness ==
    /\ stage = "done"
    /\ \E i \in 1..Len(KeptPairs) : Minutes(KeptPairs[i]) = 8 * 60 + 30
    /\ final_results = <<850>>
    /\ AdoptedTiers = {"Lowest"}

\* the "adopt" lines of the stored trace, in the order they were written
AdoptLines == SelectSeq(TraceOf, LAMBDA l : l.kind = "adopt")
TierIndex(p) == CHOOSE i \in 1..Len(Priorities) : Priorities[i] = p
LowerTiers == {"Medium", "Low", "Lowest"}

\* C11: the tiers are visited in the order Critical, High, Medium, Low,
\* Lowest; with a Critical candidate the selection is drawn from the
\* Critical values only; else with a High candidate, from the High values
\* only; else the Medium, Low and Lowest values are all combined.
C11_TierOrder ==
    stage = "done" =>
        /\ \A i \in 1..(Len(AdoptLines) - 1) :
              TierIndex(AdoptLines[i].priority) < TierIndex(AdoptLines[i + 1].priority)
        /\ CandidateValues("Critical") # {} =>
              /\ AdoptedTiers = {"Critical"}
              /\ Range(selected_values) = CandidateValues("Critical")
        /\ (CandidateValues("Critical") = {} /\ CandidateValues("High") # {}) =>
              /\ AdoptedTiers = {"High"}
              /\ Range(selected_values) = CandidateValues("High")
        /\ (CandidateValues("Critical") = {} /\ CandidateValues("High") = {}) =>
              /\ AdoptedTiers = { p \in LowerTiers : CandidateValues(p) # {} }
              /\ Range(selected_values) = UNION { CandidateValues(p) : p \in LowerTiers }
        /\ Range(final_results) \subseteq Range(selected_values)
        /\ selected_values # <<>> => final_results # <<>>

\* no Critical candidate, a High candidate, and a different Low value that
\* is left out of the selection
C11_Witness ==
    /\ stage = "done"
    /\ all_matches["Critical"] = <<>>
    /\ all_matches["High"] # <<>>
    /\ CandidateValues("Low") \ CandidateValues("High") # {}
    /\ Range(final_results) = CandidateValues("High")

----------------------------------------------------------------------------
(* Properties of is_valid_employee_name, checked under SpecName *)

\* hiragana, katakana and kanji characters
JapaneseScript == KanaKanjiRange \cup {"hira_small_a", "kata_small_a", "kata_vu"}

\* C6: a name is accepted if and only if it has 2 to 20 characters, is not
\* purely digits, is no stop-list word, and is all hiragana, katakana and
\* kanji or all Latin letters and spaces.
C6_Claim ==
    stage = "done" =>
        ( valid <=>
            /\ 2 <= CharLen(name_candidate) /\ CharLen(name_candidate) <= 20
            /\ ~(\A i \in 1..Len(name_candidate) : IsDigits(name_candidate, i))
            /\ name_candidate \notin StopNames
            /\ \/ AllOf(name_candidate, JapaneseScript)
               \/ AllOf(name_candidate, {"latin", "ws"}) )

----------------------------------------------------------------------------
(* Properties of the session, checked under SpecSession *)

FileNamed(n) == CHOOSE f \in Files : f.name = n
\* the records the table extractor returns for the text of a result's file
RecordsOf(r) == extract_multiple_employees_from_table(FileNamed(r.file_name).content).employees_data
SinglePersonFields == {"type", "raw_text", "employee_name", "work_hours", "file_name",
                       "processed_at"}
Singles == { i \in 1..Len(processed_files) : processed_files[i].type = "single_person" }

\* C3: a result is multi_person, carrying exactly the table extractor's
\* records, when the table extractor returns more than one record; with one
\* record or none it is single_person, built only from
\* extract_employee_name and extract_work_hours_smart, and carries no field
\* of the table record.
C3_Classification ==
    \A i \in 1..Len(processed_files) :
        /\ Len(RecordsOf(processed_files[i])) > 1 =>
              /\ processed_files[i].type = "multi_person"
              /\ processed_files[i].employees = RecordsOf(processed_files[i])
        /\ Len(RecordsOf(processed_files[i])) <= 1 =>
              /\ processed_files[i].type = "single_person"
              /\ DOMAIN processed_files[i] = SinglePersonFields
              /\ processed_files[i].employee_name
                    = extract_employee_name(FileNamed(processed_files[i].file_name).content)
              /\ processed_files[i].work_hours
                    = extract_work_hours_smart(processed_files[i].raw_text).final_results

\* a single_person result for a text with one table record, whose name is
\* not the one the result carries, next to a multi_person result
C3_Witness ==
    /\ \E i \in Singles :
          /\ Len(RecordsOf(processed_files[i])) = 1
          /\ RecordsOf(processed_files[i])[1].name # processed_files[i].employee_name
    /\ \E j \in 1..Len(processed_files) :
          /\ processed_files[j].type = "multi_person"
          /\ Len(processed_files[j].employees) = 2

Fails(f) ==
    \/ FileExtension(f) \notin ImageTypes \cup {"pdf"}
    \/ FileExtension(f) = "pdf" /\ ~PDF_SUPPORT
    \/ ~f.opens
Succeeding(files) == SelectSeq(files, LAMBDA f : ~Fails(f))

\* C8: a batch leaves processed_files as it was, followed by one result per
\* file that did not fail, in upload order, and shows one message per
\* uploaded file, an error exactly for the files that failed; no other step
\* changes processed_files except the clear button, which empties it.
C8_Batch ==
    [][ /\ clicked' = "process" =>
              /\ Len(processed_files')
                    = Len(processed_files) + Len(Succeeding(uploaded_files))
              /\ SubSeq(processed_files', 1, Len(processed_files)) = processed_files
              /\ \A k \in 1..Len(Succeeding(uploaded_files)) :
                    /\ processed_files'[Len(processed_files) + k].file_name
                          = Succeeding(uploaded_files)[k].name
                    /\ processed_files'[Len(processed_files) + k].raw_text
                          = Succeeding(uploaded_files)[k].content.tokens
              /\ Len(messages') = Len(uploaded_files)
              /\ \A i \in 1..Len(uploaded_files) :
                    /\ messages'[i].file_name = uploaded_files[i].name
                    /\ messages'[i].kind = "error" <=> Fails(uploaded_files[i])
        /\ clicked' = "clear" => processed_files' = <<>>
        /\ clicked' \notin {"process", "clear"} => processed_files' = processed_files
      ]_vars

\* a batch in which a file failed and a later file was processed
C8_Witness ==
    /\ clicked = "process"
    /\ \E i, j \in 1..Len(messages) :
          /\ i < j
          /\ messages[i].kind = "error"
          /\ messages[j].kind = "success"
          /\ processed_files[Len(processed_files)].file_name = messages[j].file_name

\* the success messages of the last batch, in order
Successes == SelectSeq(messages, LAMBDA msg : msg.kind = "success")

\* C9: the success message and the table row of a single_person result show
\* "not detected" when its HourSelection is empty, and only then.
C9_NotDetected ==
    /\ clicked = "process" =>
          \A k \in 1..Len(Successes) :
              LET r == processed_files[Len(processed_files) - Len(Successes) + k]
              IN  r.type = "single_person" =>
                     (Successes[k].hours = NotDetected <=> r.work_hours = <<>>)
    /\ \A n \in 1..Len(table) :
          table[n].method = "single" =>
             ( table[n].hours = NotDetected
               <=> \E i \in Singles : /\ processed_files[i].file_name = table[n].file_name
                                      /\ processed_files[i].work_hours = <<>> )

\* C10: the trace holds entries only for texts processed since the last
\* click on the clear button, that is, for texts of results that
\* processed_files holds.
C10_TraceCleared ==
    DOMAIN debug_info
        \subseteq { Take(processed_files[i].raw_text, KeyLen) : i \in Singles }

----------------------------------------------------------------------------
(* Properties of remove_duplicate_employees, checked under SpecDedupe *)

NamesOf(records) == { records[i].name : i \in 1..Len(records) }
\* the indexes of the raw records of a name, and of its tabular records
IndexesOf(n) == { i \in 1..Len(raw_records) : raw_records[i].name = n }
TabularOf(n) == { i \in IndexesOf(n) : raw_records[i].pattern_type = "hyou" }
SetMin(S) == CHOOSE x \in S : \A y \in S : x <= y
\* the record the claim keeps for a name
KeptFor(n) ==
    IF TabularOf(n) # {} THEN raw_records[SetMin(TabularOf(n))]
    ELSE raw_records[SetMin(IndexesOf(n))]

\* C12: the result holds exactly one record per distinct name, in the order
\* of the names' first occurrences; the record of a name is its first
\* tabular (hyou) record if it has one anywhere in the list, otherwise its
\* first record; so the names of the result are pairwise distinct.
C12_OnePerName ==
    stage = "done" =>
        /\ NamesOf(unique_records) = NamesOf(raw_records)
        /\ Len(unique_records) = Cardinality(NamesOf(raw_records))
        /\ \A k, l \in 1..Len(unique_records) :
              k # l => unique_records[k].name # unique_records[l].name
        /\ \A k, l \in 1..Len(unique_records) :
              k < l => SetMin(IndexesOf(unique_records[k].name))
                          < SetMin(IndexesOf(unique_records[l].name))
        /\ \A k \in 1..Len(unique_records) :
              unique_records[k] = KeptFor(unique_records[k].name)

\* a name seen first in a non-tabular record and later in two different
\* tabular records: the first tabular record stands at the first position
C12_Witness ==
    /\ stage = "done"
    /\ Len(raw_records) = 3
    /\ raw_records[1].pattern_type # "hyou"
    /\ raw_records[2].pattern_type = "hyou"
    /\ raw_records[3].pattern_type = "hyou"
    /\ raw_records[2] # raw_records[3]
    /\ unique_records = <<raw_records[2]>>

====
